---- MODULE Spec2Model ----
(***************************************************************************)
(* A model of bevy-snake (src/src/main.rs): the entities with their        *)
(* Position / SnakeSegment / SnakeHead / Food components, the GrowEvent     *)
(* queue, the deferred Commands of every system, and the schedule that      *)
(* main() builds: one frame of CoreStage::Update runs handle_input,         *)
(* grow_snake, move_snake (only when its FixedTimestep fired), then         *)
(* eat_food and spawn_food (only when its FixedTimestep fired), applies the *)
(* command buffers, and repeats move_snake alone while its FixedTimestep    *)
(* still has a whole step accumulated.  The time a frame takes is an input: *)
(* in every frame either FixedTimestep may or may not have a step           *)
(* accumulated.                                                             *)
(***************************************************************************)
EXTENDS Integers, Sequences, FiniteSets, TLC

VARIABLES
    snake_segments,  \* entity -> [position, next]: entities holding Position and SnakeSegment
    snake_head,      \* the SnakeHead component: [direction, next_direction]
    food,            \* entity -> Position: entities holding Position and Food
    grow_events,     \* GrowEvents sent and not yet read by grow_snake's EventReader
    commands,        \* system -> its Commands queue, applied when the pass ends
    next_entity,     \* the next entity id Commands will reserve
    should_run,      \* the systems the run criteria selected for this pass
    finished,        \* the systems that have run in this pass
    pc,              \* where the stage is: frame_start, run_systems, apply_buffers, ...
    pass,            \* the pass of the stage's run loop within this frame (1 = first)
    ticks,           \* runs of move_snake so far
    spawns,          \* runs of spawn_food so far
    last_tick,       \* observation: the chain as move_snake last left it, and whether the head was on food
    probe            \* the calls observed when a function is run on its own (SpecStep, SpecLatch)

vars == <<snake_segments, snake_head, food, grow_events, commands, next_entity,
          should_run, finished, pc, pass, ticks, spawns, last_tick, probe>>

world == <<snake_segments, snake_head, food, grow_events, commands, next_entity>>

---------------------------------------------------------------------------
(* Bounds of the exploration *)

\* runs of move_snake explored per behaviour
MaxTicks == 3
\* runs of spawn_food explored per behaviour
MaxSpawns == 2
\* the random draws of spawn_food explored reach this many steps from (12, 12)
DrawSpan == 1
\* runs of handle_input explored between two latch steps (SpecLatch)
MaxRequests == 2
\* latch steps explored (SpecLatch)
MaxCommits == 2

---------------------------------------------------------------------------
(* Program constants and types *)

ARENA_SIZE == 25

Direction == {"Up", "Right", "Down", "Left"}

\* Option<Entity>::None
NoEntity == 0

\* the entities spawn_snake creates, in the order it reserves them
SnakeTail1 == 1
SnakeTail2 == 2
HeadEntity == 3

Position(x, y) == [x |-> x, y |-> y]

Coordinates == 0 .. (ARENA_SIZE - 1)

Arena == {Position(x, y) : x \in Coordinates, y \in Coordinates}

Systems == {"handle_input", "grow_snake", "move_snake", "eat_food", "spawn_food"}

\* the remainder of Rust's % on i32, which takes the sign of the dividend
rem(a, n) == IF a < 0 THEN -((-a) % n) ELSE a % n

\* i32::rem_euclid for a positive modulus: the non-negative remainder
rem_euclid(a, n) == ((a % n) + n) % n


\* do_move with steps of two cells
do_move_twice(self, direction) ==
    CASE direction = "Up" ->
            [x |-> self.x, y |-> rem_euclid(self.y + 2, ARENA_SIZE)]
      [] direction = "Right" ->
            [x |-> rem_euclid(self.x + 2, ARENA_SIZE), y |-> self.y]
      [] direction = "Down" ->
            [x |-> self.x, y |-> rem_euclid(self.y - 2, ARENA_SIZE)]
      [] direction = "Left" ->
            [x |-> rem_euclid(self.x - 2, ARENA_SIZE), y |-> self.y]

\* do_move without rem_euclid
do_move_unwrapped(self, direction) ==
    CASE direction = "Up" -> [x |-> self.x, y |-> self.y + 1]
      [] direction = "Right" -> [x |-> self.x + 1, y |-> self.y]
      [] direction = "Down" -> [x |-> self.x, y |-> self.y - 1]
      [] direction = "Left" -> [x |-> self.x - 1, y |-> self.y]

\* Position::do_move
do_move(self, direction) ==
    CASE direction = "Up" ->
            [x |-> self.x, y |-> rem_euclid(self.y + 1, ARENA_SIZE)]
      [] direction = "Right" ->
            [x |-> rem_euclid(self.x + 1, ARENA_SIZE), y |-> self.y]
      [] direction = "Down" ->
            [x |-> self.x, y |-> rem_euclid(self.y - 1, ARENA_SIZE)]
      [] direction = "Left" ->
            [x |-> rem_euclid(self.x - 1, ARENA_SIZE), y |-> self.y]

\* the opposite relation the four conditions of handle_input spell out
Opposite(direction) ==
    CASE direction = "Up" -> "Down"
      [] direction = "Down" -> "Up"
      [] direction = "Left" -> "Right"
      [] direction = "Right" -> "Left"

---------------------------------------------------------------------------
(* handle_input *)

\* handle_input without the four direction tests
handle_input_unchecked(pressed, head) ==
    IF "Up" \in pressed THEN [head EXCEPT !.next_direction = "Up"]
    ELSE IF "Right" \in pressed THEN [head EXCEPT !.next_direction = "Right"]
    ELSE IF "Down" \in pressed THEN [head EXCEPT !.next_direction = "Down"]
    ELSE IF "Left" \in pressed THEN [head EXCEPT !.next_direction = "Left"]
    ELSE head

\* handle_input with its tests made against next_direction
handle_input_against_pending(pressed, head) ==
    IF "Up" \in pressed /\ head.next_direction # "Down"
    THEN [head EXCEPT !.next_direction = "Up"]
    ELSE IF "Right" \in pressed /\ head.next_direction # "Left"
    THEN [head EXCEPT !.next_direction = "Right"]
    ELSE IF "Down" \in pressed /\ head.next_direction # "Up"
    THEN [head EXCEPT !.next_direction = "Down"]
    ELSE IF "Left" \in pressed /\ head.next_direction # "Right"
    THEN [head EXCEPT !.next_direction = "Left"]
    ELSE head

\* the if / else-if chain of handle_input on the set of pressed arrow keys
handle_input(pressed, head) ==
    IF "Up" \in pressed /\ head.direction # "Down"
    THEN [head EXCEPT !.next_direction = "Up"]
    ELSE IF "Right" \in pressed /\ head.direction # "Left"
    THEN [head EXCEPT !.next_direction = "Right"]
    ELSE IF "Down" \in pressed /\ head.direction # "Up"
    THEN [head EXCEPT !.next_direction = "Down"]
    ELSE IF "Left" \in pressed /\ head.direction # "Right"
    THEN [head EXCEPT !.next_direction = "Left"]
    ELSE head

---------------------------------------------------------------------------
(* move_snake *)

\* the latch step: snake_head.direction = snake_head.next_direction
commit(head) == [head EXCEPT !.direction = head.next_direction]

\* the loop body without next_position = next_next_position
shift_segment_no_carry(segs, entity, next_position) ==
    [segments |-> [segs EXCEPT ![entity].position = next_position],
     next_position |-> next_position]

\* one iteration of the loop body on an entity the query resolves: the segment
\* takes the carried position and its old position is carried on
shift_segment(segs, entity, next_position) ==
    [segments |-> [segs EXCEPT ![entity].position = next_position],
     next_position |-> segs[entity].position]

\* The loop of move_snake from snake_segment_entity on. It breaks at the
\* segment whose next is None; when get_mut fails (the entity holds no
\* SnakeSegment and Position yet) the body is skipped and the loop repeats
\* with the same entity for ever, and so it does on a cycle.
RECURSIVE move_loop(_, _, _, _)
move_loop(segs, entity, next_position, visited) ==
    IF entity \notin DOMAIN segs \/ entity \in visited
    THEN [segments |-> segs, broke |-> FALSE]
    ELSE LET s == shift_segment(segs, entity, next_position)
         IN IF segs[entity].next # NoEntity
            THEN move_loop(s.segments, segs[entity].next, s.next_position,
                           visited \cup {entity})
            ELSE [segments |-> s.segments, broke |-> TRUE]

---------------------------------------------------------------------------
(* The chain as the queries see it *)

\* the entities from `entity` on along next, as far as they resolve
RECURSIVE ChainFrom(_, _, _)
ChainFrom(segs, entity, visited) ==
    IF entity \notin DOMAIN segs \/ entity \in visited
    THEN <<>>
    ELSE <<entity>> \o ChainFrom(segs, segs[entity].next, visited \cup {entity})

Chain(segs) == ChainFrom(segs, HeadEntity, {})

ChainPositions(segs) ==
    [i \in 1 .. Len(Chain(segs)) |-> segs[Chain(segs)[i]].position]

\* the segments .find(|s| s.next.is_none()) can return
Tails(segs) == {e \in DOMAIN segs : segs[e].next = NoEntity}

SegmentPositions(segs) == {segs[e].position : e \in DOMAIN segs}

FoodPositions(fd) == {fd[e] : e \in DOMAIN fd}

\* the ids of a set of entities in the order the queries iterate them (spawn order)
RECURSIVE InOrder(_)
InOrder(S) ==
    IF S = {} THEN <<>>
    ELSE LET m == CHOOSE e \in S : \A o \in S : e <= o
         IN <<m>> \o InOrder(S \ {m})

---------------------------------------------------------------------------
(* grow_snake *)

\* The for loop of grow_snake. Per event: commands.spawn_bundle reserves the
\* entity and queues its components (the value of the assignment is
\* evaluated first), then the tail is looked up (unwrap panics when no
\* segment has next = None) and its next is set at once.
RECURSIVE grow_loop(_, _, _, _)
grow_loop(segs, events, cmds, entity) ==
    IF events = <<>>
    THEN [segments |-> segs, commands |-> cmds, next_entity |-> entity, panicked |-> FALSE]
    ELSE LET queued == Append(cmds, [kind |-> "SnakeSegment", entity |-> entity,
                                     position |-> Head(events)])
         IN IF Tails(segs) = {}
            THEN [segments |-> segs, commands |-> queued, next_entity |-> entity + 1,
                  panicked |-> TRUE]
            ELSE LET tail == InOrder(Tails(segs))[1]
                 IN grow_loop([segs EXCEPT ![tail].next = entity], Tail(events),
                              queued, entity + 1)

---------------------------------------------------------------------------
(* eat_food *)

\* a GrowEvent that carries the head's position
grow_position_of_head(segs) == segs[HeadEntity].position

\* the position the GrowEvent of eat_food carries: that of the found tail
grow_position(segs) == segs[InOrder(Tails(segs))[1]].position

\* The for loop of eat_food over the food entities: on a match the despawn
\* is queued and a GrowEvent with the tail's position is sent; unwrap panics
\* when no segment has next = None.
RECURSIVE eat_loop(_, _, _, _, _, _)
eat_loop(foods, fd, segs, snake_head_position, cmds, events) ==
    IF foods = <<>>
    THEN [commands |-> cmds, grow_events |-> events, panicked |-> FALSE]
    ELSE IF fd[Head(foods)] = snake_head_position
    THEN LET despawn == Append(cmds, [kind |-> "despawn", entity |-> Head(foods)])
         IN IF Tails(segs) = {}
            THEN [commands |-> despawn, grow_events |-> events, panicked |-> TRUE]
            ELSE eat_loop(Tail(foods), fd, segs, snake_head_position, despawn,
                          Append(events, grow_position(segs)))
    ELSE eat_loop(Tail(foods), fd, segs, snake_head_position, cmds, events)

---------------------------------------------------------------------------
(* spawn_food *)

Abs(n) == IF n < 0 THEN -n ELSE n

\* the cells (rand * ARENA_SIZE).floor() produces, as far as explored: those in
\* the row or the column of the cell the head starts on, DrawSpan steps away at most
Draws ==
    {p \in Arena : /\ p.x = 12 \/ p.y = 12
                   /\ Abs(p.x - 12) + Abs(p.y - 12) <= DrawSpan}

\* the test with food_query alone
is_free_of_food(food_position, fd, segs) ==
    \A e \in DOMAIN fd : food_position # fd[e]

\* the test with snake_segment_query alone
is_free_of_segments(food_position, fd, segs) ==
    \A e \in DOMAIN segs : food_position # segs[e].position

\* the test that ends the rejection loop: the cell differs from every food
\* and every segment position the queries yield
is_free(food_position, fd, segs) ==
    /\ \A e \in DOMAIN fd : food_position # fd[e]
    /\ \A e \in DOMAIN segs : food_position # segs[e].position

---------------------------------------------------------------------------
(* Commands, applied at the end of a pass *)

\* apply_command with the Food bundle replacing the food items in place
apply_command_single_food(w, c) ==
    CASE c.kind = "SnakeSegment" ->
            [w EXCEPT !.snake_segments =
                [e \in DOMAIN w.snake_segments \cup {c.entity} |->
                    IF e = c.entity THEN [position |-> c.position, next |-> NoEntity]
                    ELSE w.snake_segments[e]]]
      [] c.kind = "Food" ->
            [w EXCEPT !.food = (c.entity :> c.position)]
      [] c.kind = "despawn" ->
            [w EXCEPT !.food = [e \in DOMAIN w.food \ {c.entity} |-> w.food[e]]]

apply_command(w, c) ==
    CASE c.kind = "SnakeSegment" ->
            [w EXCEPT !.snake_segments =
                [e \in DOMAIN w.snake_segments \cup {c.entity} |->
                    IF e = c.entity THEN [position |-> c.position, next |-> NoEntity]
                    ELSE w.snake_segments[e]]]
      [] c.kind = "Food" ->
            [w EXCEPT !.food =
                [e \in DOMAIN w.food \cup {c.entity} |->
                    IF e = c.entity THEN c.position ELSE w.food[e]]]
      [] c.kind = "despawn" ->
            [w EXCEPT !.food = [e \in DOMAIN w.food \ {c.entity} |-> w.food[e]]]

RECURSIVE apply_commands(_, _)
apply_commands(w, cmds) ==
    IF cmds = <<>> THEN w
    ELSE apply_commands(apply_command(w, Head(cmds)), Tail(cmds))

\* the systems' queues in the order main() adds the systems
AllCommands(cmds) == cmds["grow_snake"] \o cmds["eat_food"] \o cmds["spawn_food"]

NoCommands == [s \in {"grow_snake", "eat_food", "spawn_food"} |-> <<>>]

---------------------------------------------------------------------------
(* The schedule of main() *)

\* .after(): grow_snake after handle_input, move_snake after grow_snake,
\* eat_food and spawn_food after move_snake; a system that does not run in a
\* pass passes the order on to its dependants
Before(s) ==
    CASE s = "handle_input" -> {}
      [] s = "grow_snake" -> {"handle_input"}
      [] s = "move_snake" -> {"handle_input", "grow_snake"}
      [] s = "eat_food" -> {"handle_input", "grow_snake", "move_snake"}
      [] s = "spawn_food" -> {"handle_input", "grow_snake", "move_snake"}

\* systems added without run criteria run in the first pass of every frame
EveryFrame == {"handle_input", "grow_snake", "eat_food"}

Ready(s) ==
    /\ pc = "run_systems"
    /\ s \in should_run \ finished
    /\ Before(s) \cap (should_run \ finished) = {}

\* where the stage goes once system s has returned
Done(s) ==
    /\ finished' = finished \cup {s}
    /\ pc' = IF should_run \subseteq finished \cup {s} THEN "apply_buffers" ELSE "run_systems"

NoProbe == [called |-> FALSE]

\* the components, resources and queues of the program, by type
TypeOK ==
    /\ DOMAIN snake_segments \subseteq 1 .. (next_entity - 1)
    /\ \A e \in DOMAIN snake_segments :
          /\ snake_segments[e].position \in Arena
          /\ snake_segments[e].next \in 0 .. (next_entity - 1)
    /\ HeadEntity \in DOMAIN snake_segments
    /\ snake_head \in [direction : Direction, next_direction : Direction]
    /\ DOMAIN food \subseteq 1 .. (next_entity - 1)
    /\ DOMAIN food \cap DOMAIN snake_segments = {}
    /\ \A e \in DOMAIN food : food[e] \in Arena
    /\ grow_events \in Seq(Arena)
    /\ DOMAIN commands = {"grow_snake", "eat_food", "spawn_food"}
    /\ \A s \in DOMAIN commands : \A i \in 1 .. Len(commands[s]) :
          /\ commands[s][i].kind \in {"SnakeSegment", "Food", "despawn"}
          /\ commands[s][i].entity \in 1 .. (next_entity - 1)
    /\ should_run \subseteq Systems
    /\ finished \subseteq should_run
    /\ pc \in {"frame_start", "run_systems", "apply_buffers", "check_again",
               "move_snake_loop", "spawn_food_loop", "panicked"}
    /\ pass \in 1 .. (MaxTicks + 1)
    /\ ticks \in 0 .. MaxTicks
    /\ spawns \in 0 .. MaxSpawns
    /\ last_tick.on_food \in BOOLEAN
    /\ last_tick.chain \in Seq(Arena)

\* the world spawn_snake leaves, before the first frame
InitWorld ==
    /\ snake_segments =
          (SnakeTail1 :> [position |-> Position(14, 12), next |-> NoEntity]) @@
          (SnakeTail2 :> [position |-> Position(13, 12), next |-> SnakeTail1]) @@
          (HeadEntity :> [position |-> Position(12, 12), next |-> SnakeTail2])
    /\ snake_head = [direction |-> "Left", next_direction |-> "Left"]
    /\ food = <<>>
    /\ grow_events = <<>>
    /\ commands = NoCommands
    /\ next_entity = HeadEntity + 1
    /\ should_run = {}
    /\ finished = {}
    /\ pc = "frame_start"
    /\ pass = 1
    /\ ticks = 0
    /\ spawns = 0
    /\ last_tick = [chain |-> <<>>, on_food |-> FALSE]

Init ==
    /\ InitWorld
    /\ probe = NoProbe

\* A frame begins: both FixedTimestep criteria are evaluated on the time
\* that passed, and every system without criteria is selected.
BeginFrame ==
    /\ pc = "frame_start"
    /\ \E move \in SUBSET {"move_snake"} :
       \E spawn \in SUBSET {"spawn_food"} :
          /\ move # {} => ticks < MaxTicks
          /\ spawn # {} => spawns < MaxSpawns
          /\ should_run' = EveryFrame \cup move \cup spawn
    /\ finished' = {}
    /\ pc' = "run_systems"
    /\ pass' = 1
    /\ UNCHANGED <<world, ticks, spawns, last_tick, probe>>

HandleInput ==
    /\ Ready("handle_input")
    /\ \E pressed \in SUBSET Direction :
          snake_head' = handle_input(pressed, snake_head)
    /\ Done("handle_input")
    /\ UNCHANGED <<snake_segments, food, grow_events, commands, next_entity,
                   should_run, pass, ticks, spawns, last_tick, probe>>

GrowSnake ==
    /\ Ready("grow_snake")
    /\ LET r == grow_loop(snake_segments, grow_events, commands["grow_snake"], next_entity)
       IN /\ snake_segments' = r.segments
          /\ commands' = [commands EXCEPT !["grow_snake"] = r.commands]
          /\ next_entity' = r.next_entity
          /\ grow_events' = <<>>
          /\ IF r.panicked
             THEN pc' = "panicked" /\ finished' = finished
             ELSE Done("grow_snake")
    /\ UNCHANGED <<snake_head, food, should_run, pass, ticks, spawns, last_tick, probe>>

MoveSnake ==
    /\ Ready("move_snake")
    /\ LET head == commit(snake_head)
           next_position == do_move(snake_segments[HeadEntity].position, head.direction)
           r == move_loop(snake_segments, HeadEntity, next_position, {})
       IN /\ snake_head' = head
          /\ snake_segments' = r.segments
          /\ last_tick' = [chain |-> ChainPositions(r.segments),
                           on_food |-> r.segments[HeadEntity].position \in FoodPositions(food)]
          /\ ticks' = ticks + 1
          /\ IF r.broke
             THEN Done("move_snake")
             ELSE pc' = "move_snake_loop" /\ finished' = finished
    /\ UNCHANGED <<food, grow_events, commands, next_entity, should_run, pass,
                   spawns, probe>>

EatFood ==
    /\ Ready("eat_food")
    /\ LET r == eat_loop(InOrder(DOMAIN food), food, snake_segments,
                         snake_segments[HeadEntity].position,
                         commands["eat_food"], grow_events)
       IN /\ commands' = [commands EXCEPT !["eat_food"] = r.commands]
          /\ grow_events' = r.grow_events
          /\ IF r.panicked
             THEN pc' = "panicked" /\ finished' = finished
             ELSE Done("eat_food")
    /\ UNCHANGED <<snake_segments, snake_head, food, next_entity, should_run, pass,
                   ticks, spawns, last_tick, probe>>

\* The rejection loop ends with any cell that passes the test; with no such
\* cell in the arena it never ends.
SpawnFood ==
    /\ Ready("spawn_food")
    /\ \/ /\ \E food_position \in Draws :
                /\ is_free(food_position, food, snake_segments)
                /\ commands' = [commands EXCEPT !["spawn_food"] =
                                   Append(@, [kind |-> "Food", entity |-> next_entity,
                                              position |-> food_position])]
          /\ next_entity' = next_entity + 1
          /\ spawns' = spawns + 1
          /\ Done("spawn_food")
       \/ /\ \A food_position \in Arena : ~is_free(food_position, food, snake_segments)
          /\ pc' = "spawn_food_loop"
          /\ UNCHANGED <<commands, next_entity, spawns, finished>>
    /\ UNCHANGED <<snake_segments, snake_head, food, grow_events, should_run, pass,
                   ticks, last_tick, probe>>

\* the command buffers of the systems that ran are applied to the world
ApplyBuffers ==
    /\ pc = "apply_buffers"
    /\ LET w == apply_commands([snake_segments |-> snake_segments, food |-> food],
                               AllCommands(commands))
       IN /\ snake_segments' = w.snake_segments
          /\ food' = w.food
    /\ commands' = NoCommands
    /\ pc' = "check_again"
    /\ UNCHANGED <<snake_head, grow_events, next_entity, should_run, finished, pass,
                   ticks, spawns, last_tick, probe>>

\* The criteria that answered YesAndCheckAgain are evaluated again: move_snake
\* alone runs another pass while a whole step is still accumulated (spawn_food's
\* step is 3.0 against 0.08, its second run would need 37 passes); otherwise the
\* frame is over.
CheckAgain ==
    /\ pc = "check_again"
    /\ \/ /\ "move_snake" \in should_run
          /\ ticks < MaxTicks
          /\ should_run' = {"move_snake"}
          /\ finished' = {}
          /\ pass' = pass + 1
          /\ pc' = "run_systems"
       \/ /\ should_run' = {}
          /\ finished' = {}
          /\ pass' = 1
          /\ pc' = "frame_start"
    /\ UNCHANGED <<world, ticks, spawns, last_tick, probe>>

Next ==
    \/ BeginFrame
    \/ HandleInput
    \/ GrowSnake
    \/ MoveSnake
    \/ EatFood
    \/ SpawnFood
    \/ ApplyBuffers
    \/ CheckAgain

Spec == Init /\ [][Next]_vars

---------------------------------------------------------------------------
(* Position::do_move on its own: every position of the arena, every direction *)

InitStep ==
    /\ InitWorld
    /\ probe \in [called : {FALSE}, position : Arena, direction : Direction]

CallDoMove ==
    /\ ~probe.called
    /\ probe' = [called |-> TRUE, position |-> probe.position, direction |-> probe.direction,
                 result |-> do_move(probe.position, probe.direction)]
    /\ UNCHANGED <<world, should_run, finished, pc, pass, ticks, spawns, last_tick>>

NextStep == CallDoMove

SpecStep == InitStep /\ [][NextStep]_vars

---------------------------------------------------------------------------
(* The direction latch on its own: handle_input and the latch step of        *)
(* move_snake in any interleaving, with the keys of each request observed.   *)

\* probe.requests: the keys of the runs of handle_input since the latch step
\* before the last one (probe.committed: the last latch step came after them);
\* probe.base: the SnakeHead those runs started from
InitLatch ==
    /\ InitWorld
    /\ probe = [requests |-> <<>>, base |-> snake_head, committed |-> FALSE, commits |-> 0]

\* handle_input runs with some set of arrow keys pressed
Request ==
    /\ probe.committed \/ Len(probe.requests) < MaxRequests
    /\ \E pressed \in SUBSET Direction :
          /\ snake_head' = handle_input(pressed, snake_head)
          /\ probe' = IF probe.committed
                      THEN [probe EXCEPT !.requests = <<pressed>>, !.base = snake_head,
                                         !.committed = FALSE]
                      ELSE [probe EXCEPT !.requests = Append(@, pressed)]
    /\ UNCHANGED <<snake_segments, food, grow_events, commands, next_entity,
                   should_run, finished, pc, pass, ticks, spawns, last_tick>>

\* the latch step of move_snake
Commit ==
    /\ probe.commits < MaxCommits
    /\ snake_head' = commit(snake_head)
    /\ probe' = IF probe.committed
                 THEN [probe EXCEPT !.requests = <<>>, !.base = snake_head,
                                    !.commits = @ + 1]
                 ELSE [probe EXCEPT !.committed = TRUE, !.commits = @ + 1]
    /\ UNCHANGED <<snake_segments, food, grow_events, commands, next_entity,
                   should_run, finished, pc, pass, ticks, spawns, last_tick>>

NextLatch == Request \/ Commit

SpecLatch == InitLatch /\ [][NextLatch]_vars

---------------------------------------------------------------------------
(* Properties *)

Range(f) == {f[i] : i \in DOMAIN f}

Last(seq) == seq[Len(seq)]

Front(seq) == SubSeq(seq, 1, Len(seq) - 1)

\* a step in which move_snake ran
MoveSnakeRan == ticks' = ticks + 1

\* a step in which system s returned
Returned(s) == s \notin finished /\ s \in finished'

\* the next-references of the segments
Linkage(segs) == [e \in DOMAIN segs |-> segs[e].next]

\* C1: one run of move_snake on a chain with positions [p0, ..., p_{N-1}] and
\* committed direction d leaves the same chain, in the same order, with
\* positions [step(p0, d), p0, ..., p_{N-2}]; no next-reference, no segment
\* outside the chain and no food item changes; the seeded chain heading Left
\* becomes [(11,12), (12,12), (13,12)].
ChainShift ==
    [][MoveSnakeRan =>
        LET before == ChainPositions(snake_segments)
            after == ChainPositions(snake_segments')
        IN /\ Chain(snake_segments') = Chain(snake_segments)
           /\ Len(before) >= 1
           /\ after[1] = do_move(before[1], snake_head'.direction)
           /\ \A i \in 2 .. Len(before) : after[i] = before[i - 1]
           /\ DOMAIN snake_segments' = DOMAIN snake_segments
           /\ Linkage(snake_segments') = Linkage(snake_segments)
           /\ \A e \in DOMAIN snake_segments \ Range(Chain(snake_segments)) :
                 snake_segments'[e] = snake_segments[e]
           /\ food' = food
           /\ (/\ before = <<Position(12, 12), Position(13, 12), Position(14, 12)>>
               /\ snake_head'.direction = "Left")
              => after = <<Position(11, 12), Position(12, 12), Position(13, 12)>>
    ]_vars

\* C1 witness: move_snake has run once and shifted the seeded chain to the left
ChainShiftWitness ==
    /\ ticks = 1
    /\ "move_snake" \in finished
    /\ ChainPositions(snake_segments) =
          <<Position(11, 12), Position(12, 12), Position(13, 12)>>

\* C2: pending (next_direction) is never the opposite of current (direction),
\* and no step makes current the opposite of what it was.
AntiReversal ==
    /\ [](snake_head.next_direction # Opposite(snake_head.direction))
    /\ [][snake_head'.direction # Opposite(snake_head.direction)]_vars

\* C2 witness: after two latch steps the snake has turned, and handle_input has
\* latched a further turn
AntiReversalWitness ==
    /\ ticks = 2
    /\ snake_head.direction = "Down"
    /\ snake_head.next_direction = "Right"

\* C3 (as claimed): when the head landed on food on the tick before, with the
\* chain then [h, s1, ..., s_{N-1}] and its tail at P, this tick's run of
\* move_snake ends, and ends with N + 1 segments at
\* [step(h, d), h, s1, ..., s_{N-2}, P].
GrowthCorrectness ==
    [][(MoveSnakeRan /\ last_tick.on_food) =>
        /\ pc' # "move_snake_loop"
        /\ ChainPositions(snake_segments') =
              <<do_move(last_tick.chain[1], snake_head'.direction)>>
                 \o Front(last_tick.chain) \o <<Last(last_tick.chain)>>
    ]_vars

\* C4 (as claimed): a food item is created on a cell no segment and no other
\* food item holds, both when spawn_food picks the cell and when the queued
\* creation is applied, together with the segments created in the same pass.
SpawnNonCollision ==
    [][/\ Returned("spawn_food") =>
            LET c == Last(commands'["spawn_food"])
            IN /\ c.position \notin SegmentPositions(snake_segments)
               /\ c.position \notin FoodPositions(food)
       /\ (pc = "apply_buffers" /\ pc' # pc) =>
            \A i \in 1 .. Len(commands["spawn_food"]) :
               LET c == commands["spawn_food"][i]
               IN /\ c.position \notin SegmentPositions(snake_segments')
                  /\ \A e \in DOMAIN food' \ {c.entity} : food'[e] # c.position
    ]_vars

\* C5: do_move changes exactly one coordinate by one step modulo ARENA_SIZE
\* (Up y+1, Down y-1, Right x+1, Left x-1), stays inside the arena, and wraps
\* from 0 to ARENA_SIZE - 1 and back.
WrapCorrect ==
    probe.called =>
        LET p == probe.position
            r == probe.result
            up(c) == IF c = ARENA_SIZE - 1 THEN 0 ELSE c + 1
            down(c) == IF c = 0 THEN ARENA_SIZE - 1 ELSE c - 1
        IN /\ r.x \in 0 .. (ARENA_SIZE - 1)
           /\ r.y \in 0 .. (ARENA_SIZE - 1)
           /\ probe.direction = "Up" => r.x = p.x /\ r.y = up(p.y)
           /\ probe.direction = "Down" => r.x = p.x /\ r.y = down(p.y)
           /\ probe.direction = "Right" => r.x = up(p.x) /\ r.y = p.y
           /\ probe.direction = "Left" => r.x = down(p.x) /\ r.y = p.y
           /\ (probe.direction = "Left" /\ p.x = 0) => r.x = ARENA_SIZE - 1
           /\ (probe.direction = "Right" /\ p.x = ARENA_SIZE - 1) => r.x = 0

\* C5 witness: do_move has stepped Left from x = 0
WrapCorrectWitness ==
    /\ probe.called
    /\ probe.direction = "Left"
    /\ probe.position = Position(0, 12)
    /\ probe.result = Position(24, 12)

\* C6 (as claimed): grow_snake, move_snake (with the latch step) and eat_food
\* run in a pass all three or none, so that none runs outside a movement tick
\* and each runs once per tick; spawn_food does not run between move_snake and
\* eat_food.
TickOrdering ==
    LET TickSteps == {"grow_snake", "move_snake", "eat_food"}
    IN pc = "run_systems" =>
          /\ should_run \cap TickSteps = {} \/ TickSteps \subseteq should_run
          /\ {"move_snake", "spawn_food"} \subseteq finished
                => "eat_food" \notin should_run \ finished

\* C7 (as claimed): a growth request is materialized on the next movement tick
\* and at no other time: until that tick begins the entry stays queued and the
\* length and linkage of the chain stay as they are, so an entry is consumed,
\* and the segments or their next-references change, only in a pass that runs
\* move_snake.
GrowthTiming ==
    [][(\/ Len(grow_events') < Len(grow_events)
        \/ Linkage(snake_segments') # Linkage(snake_segments))
       => "move_snake" \in should_run
    ]_vars

\* C8 (as claimed): the segments form one acyclic chain from the head: one
\* segment no other points to (the head), one segment without next-reference,
\* every next-reference resolves, every segment is reached from the head.
ChainStructure ==
    /\ {e \in DOMAIN snake_segments :
           \A o \in DOMAIN snake_segments : snake_segments[o].next # e} = {HeadEntity}
    /\ Cardinality(Tails(snake_segments)) = 1
    /\ \A e \in DOMAIN snake_segments :
          snake_segments[e].next # NoEntity => snake_segments[e].next \in DOMAIN snake_segments
    /\ Range(Chain(snake_segments)) = DOMAIN snake_segments
    /\ snake_segments[Last(Chain(snake_segments))].next = NoEntity

\* the SnakeHead a sequence of runs of handle_input leaves
RECURSIVE Replay(_, _)
Replay(head, requests) ==
    IF requests = <<>> THEN head
    ELSE Replay(handle_input(Head(requests), head), Tail(requests))

\* C9: a run of handle_input with only the key opposite to current pressed
\* changes neither pending nor current, and the next latch step yields the
\* current it would have yielded without that run.
RejectedReversal ==
    [][/\ (/\ probe' # probe
           /\ ~probe'.committed
           /\ Last(probe'.requests) = {Opposite(snake_head.direction)})
          => snake_head' = snake_head
       /\ (/\ ~probe.committed
           /\ probe'.committed
           /\ probe.requests # <<>>
           /\ Last(probe.requests) = {Opposite(probe.base.direction)})
          => snake_head'.direction = Replay(probe.base, Front(probe.requests)).next_direction
    ]_vars

\* C9 witness: current = Left, Right requested, then the latch step: current = Left
RejectedReversalWitness ==
    /\ probe.committed
    /\ probe.requests = <<{"Right"}>>
    /\ probe.base = [direction |-> "Left", next_direction |-> "Left"]
    /\ snake_head.direction = "Left"

\* C10: eat_food, run after move_snake, returns (its unwrap does not fail), and
\* a run of eat_food queues the despawn of exactly the food items on the
\* head's cell, once each, and sends for each one GrowEvent with the position of
\* the chain's last segment; it removes no food item itself, and applying the
\* buffers removes exactly the food items whose despawn is queued.
EatDetection ==
    [][/\ ("move_snake" \in finished /\ pc = "run_systems") => pc' # "panicked"
       /\ Returned("eat_food") =>
            LET matched == {e \in DOMAIN food :
                               food[e] = snake_segments[HeadEntity].position}
                despawned == commands'["eat_food"]
                sent == SubSeq(grow_events', Len(grow_events) + 1, Len(grow_events'))
            IN /\ {c.entity : c \in Range(despawned)} = matched
               /\ \A c \in Range(despawned) : c.kind = "despawn"
               /\ Len(despawned) = Cardinality(matched)
               /\ SubSeq(grow_events', 1, Len(grow_events)) = grow_events
               /\ Len(sent) = Cardinality(matched)
               /\ \A i \in 1 .. Len(sent) :
                     sent[i] = Last(ChainPositions(snake_segments))
               /\ food' = food
               /\ snake_segments' = snake_segments
       /\ (pc = "apply_buffers" /\ pc' # pc) =>
            /\ DOMAIN food \ DOMAIN food' = {c.entity : c \in Range(commands["eat_food"])}
            /\ \A e \in DOMAIN food \cap DOMAIN food' : food'[e] = food[e]
    ]_vars

\* C10 witness: eat_food has run right after move_snake with one food item on
\* the head's cell and another elsewhere: one despawn queued, one GrowEvent
\* with the tail's position sent
EatDetectionWitness ==
    /\ {"move_snake", "eat_food"} \subseteq finished
    /\ Cardinality(DOMAIN food) = 2
    /\ Len(commands["eat_food"]) = 1
    /\ food[commands["eat_food"][1].entity] = snake_segments[HeadEntity].position
    /\ grow_events = <<snake_segments[SnakeTail1].position>>

\* An unwrap has failed. eat_food reaches this in a frame without move_snake in
\* which grow_snake has just re-linked the tail while the head still stands on a
\* food item it reached in a later pass of the frame before.
Panicked == pc = "panicked"

\* C11 (as claimed): a run of grow_snake on a queue of k >= 1 entries returns,
\* leaves the queue empty, and leaves a chain k segments longer whose last k
\* segments stand at the entries' positions in FIFO order, the last of them
\* without next-reference.
GrowthDrain ==
    [][(Ready("grow_snake") /\ grow_events # <<>> /\ grow_events' # grow_events) =>
        LET k == Len(grow_events)
            before == ChainPositions(snake_segments)
            after == ChainPositions(snake_segments')
        IN /\ pc' # "panicked"
           /\ grow_events' = <<>>
           /\ Len(after) = Len(before) + k
           /\ SubSeq(after, 1, Len(before)) = before
           /\ SubSeq(after, Len(before) + 1, Len(after)) = grow_events
           /\ snake_segments'[Last(Chain(snake_segments'))].next = NoEntity
    ]_vars

---------------------------------------------------------------------------
(* The rejection loop of spawn_food on its own, one draw per step, on an     *)
(* arena that food covers but for the segments' cells and a few others.      *)

\* cells left free of food on entry, at most
MaxFree == 4

\* the cells that may be free of food on entry
FreeCandidates == {Position(i - 1, i - 1) : i \in 1 .. MaxFree}

\* one food entity on every cell of `cells`
FoodCovering(cells) ==
    [e \in {HeadEntity + 1 + p.x * ARENA_SIZE + p.y : p \in cells} |->
        Position((e - HeadEntity - 1) \div ARENA_SIZE, (e - HeadEntity - 1) % ARENA_SIZE)]

\* spawn_food is about to run in a frame in which the other systems have run
InitDraw ==
    /\ snake_segments =
          (SnakeTail1 :> [position |-> Position(14, 12), next |-> NoEntity]) @@
          (SnakeTail2 :> [position |-> Position(13, 12), next |-> SnakeTail1]) @@
          (HeadEntity :> [position |-> Position(12, 12), next |-> SnakeTail2])
    /\ snake_head = [direction |-> "Left", next_direction |-> "Left"]
    /\ \E free \in SUBSET FreeCandidates :
          food = FoodCovering(Arena \ (SegmentPositions(snake_segments) \cup free))
    /\ grow_events = <<>>
    /\ commands = NoCommands
    /\ next_entity = HeadEntity + 1 + ARENA_SIZE * ARENA_SIZE
    /\ should_run = EveryFrame \cup {"spawn_food"}
    /\ finished = EveryFrame
    /\ pc = "run_systems"
    /\ pass = 1
    /\ ticks = 0
    /\ spawns = 0
    /\ last_tick = [chain |-> <<>>, on_food |-> FALSE]
    /\ probe = NoProbe

\* the draws that pass the test of the loop
FreeCells(fd, segs) == {p \in Arena : is_free(p, fd, segs)}

\* an iteration of the loop whose draw fails the test: the loop repeats
DrawOccupied ==
    /\ Ready("spawn_food")
    /\ (\E food_position \in Arena : ~is_free(food_position, food, snake_segments)) = TRUE
    /\ probe' = [called |-> TRUE, accepted |-> FALSE]
    /\ UNCHANGED <<world, should_run, finished, pc, pass, ticks, spawns, last_tick>>

\* an iteration of the loop whose draw passes the test: break, and the food
\* item's creation is queued
DrawFree ==
    /\ Ready("spawn_food")
    /\ \E food_position \in FreeCells(food, snake_segments) :
          /\ probe' = [called |-> TRUE, accepted |-> TRUE]
          /\ commands' = [commands EXCEPT !["spawn_food"] =
                             Append(@, [kind |-> "Food", entity |-> next_entity,
                                        position |-> food_position])]
    /\ next_entity' = next_entity + 1
    /\ spawns' = spawns + 1
    /\ Done("spawn_food")
    /\ UNCHANGED <<snake_segments, snake_head, food, grow_events, should_run, pass,
                   ticks, last_tick>>

NextDraw ==
    \/ DrawOccupied
    \/ DrawFree
    \/ ApplyBuffers
    \/ CheckAgain

\* every draw is uniform over the arena, so a draw that passes the test is
\* not put off for ever while there is one
SpecDraw ==
    /\ InitDraw
    /\ [][NextDraw]_vars
    /\ WF_vars(DrawFree)
    /\ WF_vars(ApplyBuffers)

\* some cell of the arena holds neither a food item nor a segment
SomeCellFree ==
    Arena \ (FoodPositions(food) \cup SegmentPositions(snake_segments)) # {}

\* C12: a run of spawn_food ends, and the food item is created, whenever some
\* cell of the arena holds neither food nor segment; it does not end when every
\* cell holds a food item or a segment.
SpawnTermination ==
    /\ (Ready("spawn_food") /\ SomeCellFree)
          ~> (pc = "check_again" /\ (next_entity - 1) \in DOMAIN food)
    /\ [][Returned("spawn_food") => SomeCellFree]_vars

\* C12 witness: the loop has drawn occupied cells of an arena with no free cell
SpawnTerminationWitness ==
    /\ Ready("spawn_food")
    /\ ~SomeCellFree
    /\ probe.called

\* C13 (as claimed): every run of move_snake ends, also in the pass in which
\* grow_snake has just re-linked the tail: each next-reference the loop follows
\* resolves to a segment, each segment of the chain is updated, and the loop
\* breaks at the segment without next-reference.
MovementTerminates ==
    [][MoveSnakeRan =>
        /\ \A e \in Range(Chain(snake_segments)) :
              snake_segments[e].next # NoEntity =>
                 snake_segments[e].next \in DOMAIN snake_segments
        /\ snake_segments[Last(Chain(snake_segments))].next = NoEntity
        /\ Range(Chain(snake_segments)) = DOMAIN snake_segments
        /\ Returned("move_snake")
        /\ pc' # "move_snake_loop"
    ]_vars

---------------------------------------------------------------------------
(* The program from the state in which the snake has walked to a corner of   *)
(* the arena, before the first food item appears.                            *)

\* the SnakeHead and the segments after frames with one key pressed and one
\* run of move_snake each, no GrowEvent and no food
RECURSIVE Walk(_, _)
Walk(w, keys) ==
    IF keys = <<>> THEN w
    ELSE LET head == commit(handle_input({Head(keys)}, w.snake_head))
             next_position == do_move(w.snake_segments[HeadEntity].position, head.direction)
             r == move_loop(w.snake_segments, HeadEntity, next_position, {})
         IN Walk([snake_segments |-> r.segments, snake_head |-> head], Tail(keys))

\* the keys that take the head from (12, 12) to the corner (0, 24)
EdgeWalks ==
    LET straight(d) == [i \in 1 .. (ARENA_SIZE \div 2) |-> d]
    IN {straight("Up") \o straight("Left")}

InitEdge ==
    /\ \E keys \in EdgeWalks :
          LET w == Walk([snake_segments |->
                            (SnakeTail1 :> [position |-> Position(14, 12), next |-> NoEntity]) @@
                            (SnakeTail2 :> [position |-> Position(13, 12), next |-> SnakeTail1]) @@
                            (HeadEntity :> [position |-> Position(12, 12), next |-> SnakeTail2]),
                         snake_head |-> [direction |-> "Left", next_direction |-> "Left"]],
                        keys)
          IN /\ snake_segments = w.snake_segments
             /\ snake_head = w.snake_head
    /\ food = <<>>
    /\ grow_events = <<>>
    /\ commands = NoCommands
    /\ next_entity = HeadEntity + 1
    /\ should_run = {}
    /\ finished = {}
    /\ pc = "frame_start"
    /\ pass = 1
    /\ ticks = 0
    /\ spawns = 0
    /\ last_tick = [chain |-> <<>>, on_food |-> FALSE]
    /\ probe = NoProbe

SpecEdge == InitEdge /\ [][Next]_vars

\* C14: the x and y of the position of every segment and of every food item
\* lie in 0 .. ARENA_SIZE - 1, in every state.
PositionBounds ==
    /\ \A e \in DOMAIN snake_segments :
          /\ snake_segments[e].position.x >= 0
          /\ snake_segments[e].position.x < ARENA_SIZE
          /\ snake_segments[e].position.y >= 0
          /\ snake_segments[e].position.y < ARENA_SIZE
    /\ \A e \in DOMAIN food :
          /\ food[e].x >= 0
          /\ food[e].x < ARENA_SIZE
          /\ food[e].y >= 0
          /\ food[e].y < ARENA_SIZE

\* C14 witness: the head has crossed the edge at y = 24, then the edge at
\* x = 0, and stands at (24, 0) with the rest of the chain at (0, 0) and
\* (0, 24), and a food item exists
PositionBoundsWitness ==
    /\ ChainPositions(snake_segments) =
          <<Position(ARENA_SIZE - 1, 0), Position(0, 0), Position(0, ARENA_SIZE - 1)>>
    /\ food # <<>>

\* the direction a run of handle_input asks for that is not the opposite of
\* current: the first pressed key in the order Up, Right, Down, Left that
\* current allows, or "none"
ValidRequest(pressed, current) ==
    LET order == <<"Up", "Right", "Down", "Left">>
        valid == {i \in 1 .. 4 : order[i] \in pressed /\ order[i] # Opposite(current)}
    IN IF valid = {} THEN "none"
       ELSE order[CHOOSE i \in valid : \A j \in valid : i <= j]

\* the direction of the last request of the sequence that current allows, or
\* current when there is none
RECURSIVE LastValid(_, _)
LastValid(current, requests) ==
    IF requests = <<>> THEN current
    ELSE IF ValidRequest(Last(requests), current) # "none"
    THEN ValidRequest(Last(requests), current)
    ELSE LastValid(current, Front(requests))

\* C15: the latch step that follows a sequence of runs of handle_input makes
\* current the direction of the last request of the sequence that was not the
\* opposite of current, whatever was accepted before it, and leaves current as
\* it was when no such request was made since the latch step before.
LastRequestWins ==
    [][/\ (~probe.committed /\ probe'.committed)
          => snake_head'.direction = LastValid(probe.base.direction, probe.requests)
       /\ (probe.committed /\ probe'.commits # probe.commits)
          => snake_head'.direction = snake_head.direction
    ]_vars

\* C15 witness: current = Left, Up requested and accepted, then Down requested
\* and accepted, then the latch step: current = Down
LastRequestWinsWitness ==
    /\ probe.committed
    /\ probe.requests = <<{"Up"}, {"Down"}>>
    /\ probe.base = [direction |-> "Left", next_direction |-> "Left"]
    /\ snake_head.direction = "Down"

\* C16: a run of spawn_food that returns queues the creation of one food item
\* on a new entity and changes nothing else: food items, segments, SnakeHead
\* and GrowEvents stay as they are, however many food items exist and whether
\* or not one was eaten; applying the buffers adds exactly the queued item
\* and changes no food item that is not despawned.
SpawnEffect ==
    [][/\ Returned("spawn_food") =>
            /\ Len(commands'["spawn_food"]) = Len(commands["spawn_food"]) + 1
            /\ Front(commands'["spawn_food"]) = commands["spawn_food"]
            /\ Last(commands'["spawn_food"]).kind = "Food"
            /\ Last(commands'["spawn_food"]).entity \notin
                  DOMAIN food \cup DOMAIN snake_segments
                     \cup {c.entity : c \in Range(AllCommands(commands))}
            /\ commands'["grow_snake"] = commands["grow_snake"]
            /\ commands'["eat_food"] = commands["eat_food"]
            /\ food' = food
            /\ snake_segments' = snake_segments
            /\ snake_head' = snake_head
            /\ grow_events' = grow_events
       /\ (pc = "apply_buffers" /\ pc' # pc) =>
            /\ DOMAIN food' \ DOMAIN food =
                  {c.entity : c \in Range(commands["spawn_food"])}
            /\ Cardinality(DOMAIN food' \ DOMAIN food) = Len(commands["spawn_food"])
            /\ Len(commands["spawn_food"]) <= 1
            /\ \A c \in Range(commands["spawn_food"]) : food'[c.entity] = c.position
            /\ \A e \in DOMAIN food \cap DOMAIN food' : food'[e] = food[e]
            /\ DOMAIN food \ DOMAIN food' \subseteq
                  {c.entity : c \in Range(commands["eat_food"])}
    ]_vars

\* C16 witness: spawn_food has run with a food item in place and the buffers
\* have been applied: the old item is where it was and the new one has been
\* added
SpawnEffectWitness ==
    /\ pc = "check_again"
    /\ "spawn_food" \in finished
    /\ spawns = 2
    /\ Cardinality(DOMAIN food) = 2

\* two cells one step apart on the torus: one coordinate equal, the other
\* differing by 1 or by ARENA_SIZE - 1
Adjacent(p, q) ==
    \/ p.x = q.x /\ Abs(p.y - q.y) \in {1, ARENA_SIZE - 1}
    \/ p.y = q.y /\ Abs(p.x - q.x) \in {1, ARENA_SIZE - 1}

\* every two consecutive segments of the chain stand on adjacent cells
Contiguous(segs) ==
    \A i \in 1 .. (Len(Chain(segs)) - 1) :
        Adjacent(ChainPositions(segs)[i], ChainPositions(segs)[i + 1])

\* C17: the seeded chain is contiguous, and so is the chain every run of
\* move_snake leaves, the first run on a chain with an appended segment
\* included.
BodyContiguity ==
    /\ (ticks = 0 => Contiguous(snake_segments))
    /\ [][MoveSnakeRan => Contiguous(snake_segments')]_vars

\* C17 witness: move_snake has run on a chain of four segments
BodyContiguityWitness ==
    /\ "move_snake" \in finished
    /\ Len(Chain(snake_segments)) = 4
    /\ Len(last_tick.chain) = 4

\* C18 (as claimed): when a pass has ended and between frames, no food item
\* stands on the cell of a segment.
FoodNotUnderBody ==
    pc \in {"check_again", "frame_start"} =>
        FoodPositions(food) \cap SegmentPositions(snake_segments) = {}

\* C19: no two food items stand on the same cell; a run of eat_food matches
\* at most one food item; at most one GrowEvent is waiting, so grow_snake
\* never reads more than one in a run.
OneEatPerTick ==
    /\ [](\A e1 \in DOMAIN food : \A e2 \in DOMAIN food : food[e1] = food[e2] => e1 = e2)
    /\ [](Len(grow_events) <= 1)
    /\ [][(Ready("eat_food") /\ commands'["eat_food"] # commands["eat_food"]) =>
            /\ Len(commands'["eat_food"]) = 1
            /\ Cardinality({e \in DOMAIN food :
                               food[e] = snake_segments[HeadEntity].position}) = 1
      ]_vars

\* C19 witness: grow_snake is about to run on one GrowEvent, sent by a run of
\* eat_food that matched one of two food items
OneEatPerTickWitness ==
    /\ Ready("grow_snake")
    /\ Len(grow_events) = 1
    /\ Cardinality(DOMAIN food) = 1
    /\ spawns = 2

\* the food items eat_food has matched so far: those created (or queued for
\* creation) that exist no more, and those whose despawn is queued
EatenSoFar ==
    LET queued(kind) == Cardinality({i \in 1 .. Len(AllCommands(commands)) :
                                        AllCommands(commands)[i].kind = kind})
    IN spawns - queued("Food") - Cardinality(DOMAIN food) + queued("despawn")

\* C20 (as claimed): in every state the number of segments reached from the
\* head plus the number of GrowEvents not yet read is 3 plus the number of food
\* items eaten so far; the chain never has less than 3 segments and never gets
\* shorter.
GrowthConservation ==
    /\ [](Len(Chain(snake_segments)) + Len(grow_events) = 3 + EatenSoFar)
    /\ [](Len(Chain(snake_segments)) >= 3)
    /\ [][Len(Chain(snake_segments')) >= Len(Chain(snake_segments))]_vars

====
